---- MODULE Spec2Model ----
(***************************************************************************)
(* Model of recruitmentgit/campus/form.py: the public form-config reader   *)
(* (get_public_form_config) and the application submission handler         *)
(* (api_submit_application), run by concurrent request threads against     *)
(* one SQLite database and one upload directory.                           *)
(*                                                                         *)
(* Text that the handlers take apart (filenames, emails) is a sequence of  *)
(* one-character strings; column names and messages are plain strings.     *)
(*                                                                         *)
(* Spec is the submission pipeline: concurrent submissions, each split at  *)
(* its accesses to the upload directory and the database, while the        *)
(* dashboard may rewrite form_config.  FormSpec is the schema reader over  *)
(* a wide range of form_config and form_sections tables.                   *)
(***************************************************************************)
EXTENDS Integers, Sequences, FiniteSets, TLC

(* ---------------------------- bounds ----------------------------------- *)
\* number of submission requests that are served (concurrently or in turn)
MaxSubmissions == 2
\* number of form-config requests that are served
MaxGets == 2

(* ------------------------- text helpers -------------------------------- *)
\* str.lower() on one character of the alphabet used here
LowerChar(c) ==
    CASE c = "P" -> "p"
      [] c = "D" -> "d"
      [] c = "F" -> "f"
      [] OTHER -> c

Lower(s) == [i \in 1..Len(s) |-> LowerChar(s[i])]

\* index of the last '.' of s, 0 when there is none
LastDot(s) ==
    LET dots == {i \in 1..Len(s) : s[i] = "."}
    IN IF dots = {} THEN 0 ELSE CHOOSE i \in dots : \A j \in dots : j <= i

\* filename.rsplit('.', 1)[1]
RSplitExt(s) == SubSeq(s, LastDot(s) + 1, Len(s))

ALLOWED_EXTENSIONS == { <<"p", "d", "f">> }

\* allowed_file without the .lower()
allowed_file_nolower(filename) ==
    /\ LastDot(filename) # 0
    /\ RSplitExt(filename) \in ALLOWED_EXTENSIONS

\* allowed_file that accepts any extension
allowed_file_anyext(filename) == LastDot(filename) # 0

\* lines 27-30
allowed_file(filename) ==
    /\ LastDot(filename) # 0
    /\ Lower(RSplitExt(filename)) \in ALLOWED_EXTENSIONS

\* characters kept by werkzeug's secure_filename: [A-Za-z0-9_.-]
SafeChars == {"a", "b", "c", "d", "e", "f", "i", "k", "l", "m", "n", "o",
              "p", "u", "w", "x", "P", "D", "F", "_", ".", "-"}

\* os.sep is replaced by a blank
ReplaceSep(s) == [i \in 1..Len(s) |-> IF s[i] = "/" THEN " " ELSE s[i]]

\* "_".join(s.split()): runs of blanks become one '_', outer blanks vanish
RECURSIVE SplitJoin(_, _, _)
SplitJoin(s, acc, pending) ==
    IF s = <<>> THEN acc
    ELSE IF Head(s) = " "
         THEN SplitJoin(Tail(s), acc, acc # <<>>)
         ELSE SplitJoin(Tail(s),
                        (IF pending THEN Append(acc, "_") ELSE acc) \o <<Head(s)>>,
                        FALSE)

RECURSIVE LStrip(_)
LStrip(s) ==
    IF s # <<>> /\ Head(s) \in {".", "_"} THEN LStrip(Tail(s)) ELSE s

RECURSIVE RStrip(_)
RStrip(s) ==
    IF s # <<>> /\ s[Len(s)] \in {".", "_"}
    THEN RStrip(SubSeq(s, 1, Len(s) - 1)) ELSE s

\* werkzeug.utils.secure_filename
secure_filename(s) ==
    LET joined == SplitJoin(ReplaceSep(s), <<>>, FALSE)
        kept   == SelectSeq(joined, LAMBDA c : c \in SafeChars)
    IN RStrip(LStrip(kept))

(* --------------------------- request inputs ---------------------------- *)
Subs == 1..MaxSubmissions

PdfName   == <<"c", ".", "p", "d", "f">>
PdfUpper  == <<"c", ".", "P", "D", "F">>
DocxName  == <<"c", ".", "d", "o", "c", "x">>
NoDotName == <<"p", "d", "f">>

Filenames == { <<>>, PdfName, PdfUpper, DocxName, NoDotName }

\* request.form of the requests that are sent; 'foo' is no form_config name
FormKnown   == [email |-> <<"a">>, name |-> <<"n">>, foo |-> <<"b", "a", "r">>,
                resume_path |-> <<"x">>]
FormAtEmail == [email |-> <<"@", "a">>]
FormFoo     == [foo |-> <<"b", "a", "r">>]

Forms == {FormKnown, FormAtEmail, FormFoo}

\* a request: hasPart is 'cv-resume' in request.files, filename is
\* request.files['cv-resume'].filename, form is request.form
Request(h, fn, fm) == [hasPart |-> h, filename |-> fn, form |-> fm]

\* the requests that are sent
Requests ==
    { Request(FALSE, <<>>, FormKnown),
      Request(TRUE, <<>>, FormKnown),
      Request(TRUE, DocxName, FormKnown),
      Request(TRUE, NoDotName, FormAtEmail),
      Request(TRUE, PdfName, FormKnown),
      Request(TRUE, PdfUpper, FormAtEmail),
      Request(TRUE, PdfName, FormFoo) }

NoReq == [hasPart |-> FALSE, filename |-> <<>>, form |-> <<>>]

UnknownEmail == <<"u", "n", "k", "n", "o", "w", "n", "_", "e", "m", "a", "i", "l">>

(* --------------------------- stored schema ----------------------------- *)
FieldRow(n, s, o) == [name |-> n, subsection |-> s, field_order |-> o]

\* form_config contents the dashboard switches between while submissions run
CfgChoices ==
    { {FieldRow("email", "A", 1), FieldRow("name", "B", 2)},
      {FieldRow("name", "B", 2)} }

SectionRow(n, o) == [name |-> n, section_order |-> o]

\* the results SELECT * FROM form_config ORDER BY field_order ASC can return:
\* rows of equal field_order come in an order SQL leaves open; SQLite takes
\* it from the stored table, so it stays the same while the table does
OrderedFetches(rows) ==
    LET n == Cardinality(rows)
    IN {s \in [1..n -> rows] :
          /\ \A i, j \in 1..n : i # j => s[i] # s[j]
          /\ \A i, j \in 1..n : i < j => s[i].field_order <= s[j].field_order}

\* form_sections: the table may be missing; when present it holds rows
SectionsMissing == [exists |-> FALSE, rows |-> {}]
SectionsTable(rows) == [exists |-> TRUE, rows |-> rows]


VARIABLES
    form_config,      \* rows of table form_config
    form_config_order,\* the same rows as ORDER BY field_order returns them
    form_sections,    \* table form_sections (or its absence)
    applications,     \* committed rows of table applications
    uploads,          \* files of UPLOAD_FOLDER: set of [name, blob]
    pc,               \* per submission: position in api_submit_application
    req,              \* per submission: the request it serves
    valid_columns,    \* per submission: local valid_columns
    columns_to_insert,\* per submission: local columns_to_insert
    conn,             \* per submission: "none", "open" or "closed"
    err,              \* per submission: local e of the except block
    resp,             \* per submission: the response returned
    gpc,              \* form-config request: position in get_public_form_config
    gcount,           \* form-config requests started so far
    section_order,    \* form-config request: local section_order
    fields_query,     \* form-config request: local fields_query
    ordered_subsections, \* form-config request: local ordered_subsections
    gconn,            \* form-config request: "none", "open" or "closed"
    gresp             \* the last response a form-config request returned

subVars == <<pc, req, valid_columns, columns_to_insert, conn, err, resp>>
getVars == <<gpc, gcount, section_order, fields_query, ordered_subsections, gconn,
            gresp>>
dbVars  == <<form_config, form_config_order, form_sections, applications>>
vars == <<form_config, form_config_order, form_sections, applications, uploads,
          pc, req, valid_columns, columns_to_insert, conn, err, resp,
          gpc, gcount, section_order, fields_query, ordered_subsections, gconn, gresp>>

NoResp == [status |-> 0]

SubInit ==
    /\ applications = {}
    /\ uploads = {}
    /\ pc = [p \in Subs |-> "idle"]
    /\ req = [p \in Subs |-> NoReq]
    /\ valid_columns = [p \in Subs |-> {}]
    /\ columns_to_insert = [p \in Subs |-> {}]
    /\ conn = [p \in Subs |-> "none"]
    /\ err = [p \in Subs |-> "none"]
    /\ resp = [p \in Subs |-> NoResp]

GetInit ==
    /\ gpc = "idle"
    /\ gcount = 0
    /\ section_order = <<>>
    /\ fields_query = <<>>
    /\ ordered_subsections = <<>>
    /\ gconn = "none"
    /\ gresp = NoResp

\* the campus database: form_config as the dashboard left it, no form_sections
Init ==
    /\ form_config \in CfgChoices
    /\ form_config_order \in OrderedFetches(form_config)
    /\ form_sections = SectionsMissing
    /\ SubInit
    /\ GetInit

(* ------------------------ api_submit_application ----------------------- *)
\* request.form.get('email', 'unknown_email')
EmailOf(r) ==
    IF "email" \in DOMAIN r.form THEN r.form["email"] ELSE UnknownEmail

\* f"{secure_filename(email)}_{secure_filename(file.filename)}"
unique_filename(r) ==
    secure_filename(EmailOf(r)) \o <<"_">> \o secure_filename(r.filename)

\* data = request.form.to_dict(); data['resume_path'] = unique_filename
Data(r) ==
    [k \in DOMAIN r.form \cup {"resume_path"} |->
        IF k = "resume_path" THEN unique_filename(r) ELSE r.form[k]]

\* the conflict message built from the sanitised email
DataEmailSanitized(r) == secure_filename(EmailOf(r))

\* data.get('email')
DataEmail(r) ==
    IF "email" \in DOMAIN Data(r) THEN Data(r)["email"] ELSE <<"N", "o", "n", "e">>

ErrNoPart   == [status |-> 400, error |-> "No resume file part"]
ErrNoFile   == [status |-> 400, error |-> "No selected file"]
ErrBadType  == [status |-> 400, error |-> "File type not allowed. Please upload a PDF."]
ErrNoFields == [status |-> 400, error |-> "No valid data fields received."]
RespSuccess == [status |-> 200, success |-> TRUE,
                message |-> "Application submitted successfully."]
RespConflict(email) ==
    [status |-> 409, error |-> "An application with the email already exists.",
     email |-> email]
RespServerError(e) ==
    [status |-> 500, error |-> "An error occurred on the server.", message |-> e]
\* an exception that leaves the view function: the framework's own error page
Unhandled == [status |-> 500, unhandled |-> TRUE]

\* the three attachment checks, in the order of the code; NoResp when all pass
AttachmentCheck(r) ==
    IF ~r.hasPart THEN ErrNoPart
    ELSE IF r.filename = <<>> THEN ErrNoFile
    ELSE IF ~allowed_file(r.filename) THEN ErrBadType
    ELSE NoResp

FileExists(name) == \E f \in uploads : f.name = name

\* a save that keeps a file that is already stored under the name
SaveFileKeepFirst(name, blob) ==
    IF \E f \in uploads : f.name = name
    THEN uploads
    ELSE uploads \cup {[name |-> name, blob |-> blob]}

\* file.save(file_path): creates or overwrites the file with this upload
SaveFile(name, blob) ==
    {f \in uploads : f.name # name} \cup {[name |-> name, blob |-> blob]}

\* a cleanup that removes nothing
RemoveNothing(name) == uploads

\* os.remove(file_path)
RemoveFile(name) == {f \in uploads : f.name # name}

\* str(e) of the exceptions that file.save and the sqlite3 calls raise
OSError == "OSError"
SqliteError == "sqlite3.Error"

\* finally: if 'conn' in locals() and conn: conn.close()
Finally(c) == IF c = "open" THEN "closed" ELSE c

\* the handler returns: its locals are gone, the response and the state of
\* its connection stay
Return(p, response, c) ==
    /\ resp' = [resp EXCEPT ![p] = response]
    /\ conn' = [conn EXCEPT ![p] = Finally(c)]
    /\ valid_columns' = [valid_columns EXCEPT ![p] = {}]
    /\ columns_to_insert' = [columns_to_insert EXCEPT ![p] = {}]
    /\ err' = [err EXCEPT ![p] = "none"]
    /\ pc' = [pc EXCEPT ![p] = "done"]

\* lines 155-160: except Exception as e, with the connection in state c:
\* os.path.exists(file_path) is tested, and os.remove is a later step
Except(p, e, c) ==
    IF FileExists(unique_filename(req[p]))
    THEN /\ pc' = [pc EXCEPT ![p] = "remove"]
         /\ err' = [err EXCEPT ![p] = e]
         /\ conn' = [conn EXCEPT ![p] = c]
         /\ UNCHANGED <<resp, valid_columns, columns_to_insert>>
    ELSE Return(p, RespServerError(e), c)

\* lines 114-125; requests are numbered in their order of arrival
Receive(p, r) ==
    /\ pc[p] = "idle"
    /\ \A q \in Subs : q < p => pc[q] # "idle"
    /\ req' = [req EXCEPT ![p] = r]
    /\ IF AttachmentCheck(r) # NoResp
       THEN Return(p, AttachmentCheck(r), conn[p])
       ELSE /\ pc' = [pc EXCEPT ![p] = "save"]
            /\ UNCHANGED <<resp, conn, valid_columns, columns_to_insert, err>>
    /\ UNCHANGED <<dbVars, uploads>>
    /\ UNCHANGED getVars

\* line 128, file.save(file_path) succeeds
Save(p) ==
    /\ pc[p] = "save"
    /\ uploads' = SaveFile(unique_filename(req[p]), p)
    /\ pc' = [pc EXCEPT ![p] = "read"]
    /\ UNCHANGED <<dbVars, req, valid_columns, columns_to_insert, conn, err, resp>>
    /\ UNCHANGED getVars

\* line 128, file.save(file_path) raises before anything is written
SaveFails(p) ==
    /\ pc[p] = "save"
    /\ Except(p, OSError, conn[p])
    /\ UNCHANGED <<dbVars, uploads, req>>
    /\ UNCHANGED getVars

\* line 132, get_db_conn() raises: conn is not bound
ConnectFails(p) ==
    /\ pc[p] = "read"
    /\ Except(p, SqliteError, conn[p])
    /\ UNCHANGED <<dbVars, uploads, req>>
    /\ UNCHANGED getVars

\* lines 132-135, the connection opens and SELECT name FROM form_config raises
SelectFails(p) ==
    /\ pc[p] = "read"
    /\ Except(p, SqliteError, "open")
    /\ UNCHANGED <<dbVars, uploads, req>>
    /\ UNCHANGED getVars

\* valid_columns read once, from the first form_config this server ever saw
ValidColumnsStale == {f.name : f \in CHOOSE c \in CfgChoices : TRUE} \cup {"resume_path"}

\* lines 135-137: the names of the current form_config rows, plus resume_path
ValidColumns == {f.name : f \in form_config} \cup {"resume_path"}

\* line 139 (the order of the columns plays no part in the row)
ColumnsToInsert(data, valid) == {col \in DOMAIN data : col \in valid}

\* lines 132-141: connect, read the valid columns, filter the submitted keys
ReadColumns(p) ==
    /\ pc[p] = "read"
    /\ IF ColumnsToInsert(Data(req[p]), ValidColumns) = {}
       THEN Return(p, ErrNoFields, "open")
       ELSE /\ valid_columns' = [valid_columns EXCEPT ![p] = ValidColumns]
            /\ columns_to_insert' =
                  [columns_to_insert EXCEPT
                      ![p] = ColumnsToInsert(Data(req[p]), ValidColumns)]
            /\ conn' = [conn EXCEPT ![p] = "open"]
            /\ pc' = [pc EXCEPT ![p] = "insert"]
            /\ UNCHANGED <<resp, err>>
    /\ UNCHANGED <<dbVars, uploads, req>>
    /\ UNCHANGED getVars

\* the row the INSERT of line 146 names: the filtered columns and their values
RowOf(p) == [col \in columns_to_insert[p] |-> Data(req[p])[col]]

\* the UNIQUE constraint on applications.email (NULL, the value of a column
\* the INSERT does not name, never collides)
IntegrityViolation(row) ==
    /\ "email" \in DOMAIN row
    /\ \E a \in applications :
          "email" \in DOMAIN a.data /\ a.data["email"] = row["email"]

\* lines 148, 153-154: the INSERT raises sqlite3.IntegrityError
InsertConflict(p) ==
    /\ pc[p] = "insert"
    /\ IntegrityViolation(RowOf(p))
    /\ Return(p, RespConflict(DataEmail(req[p])), conn[p])
    /\ UNCHANGED <<dbVars, uploads, req>>
    /\ UNCHANGED getVars

\* line 148: the INSERT raises another error (database locked, disk I/O, ...)
InsertFails(p) ==
    /\ pc[p] = "insert"
    /\ Except(p, SqliteError, conn[p])
    /\ UNCHANGED <<dbVars, uploads, req>>
    /\ UNCHANGED getVars

\* a commit that raises although the row has become durable
CommitFailsRowStays(p) ==
    /\ pc[p] = "insert"
    /\ ~IntegrityViolation(RowOf(p))
    /\ applications' = applications \cup {[id |-> p, data |-> RowOf(p)]}
    /\ Return(p, RespServerError(SqliteError), conn[p])
    /\ UNCHANGED <<form_config, form_config_order, form_sections, uploads, req>>
    /\ UNCHANGED getVars

\* lines 148-149: the INSERT passes and conn.commit() raises; closing the
\* connection rolls the row back
CommitFails(p) ==
    /\ pc[p] = "insert"
    /\ ~IntegrityViolation(RowOf(p))
    /\ Except(p, SqliteError, conn[p])
    /\ UNCHANGED <<dbVars, uploads, req>>
    /\ UNCHANGED getVars

\* lines 148-151: the row is inserted and committed (SQLite admits one writer
\* at a time, so execute and commit are one step to every other request)
InsertOk(p) ==
    /\ pc[p] = "insert"
    /\ ~IntegrityViolation(RowOf(p))
    /\ applications' = applications \cup {[id |-> p, data |-> RowOf(p)]}
    /\ Return(p, RespSuccess, conn[p])
    /\ UNCHANGED <<form_config, form_config_order, form_sections, uploads, req>>
    /\ UNCHANGED getVars

\* lines 159-163: os.remove(file_path), which raises FileNotFoundError out of
\* the except block when the file has gone since the exists() test
Remove(p) ==
    /\ pc[p] = "remove"
    /\ IF FileExists(unique_filename(req[p]))
       THEN /\ uploads' = RemoveFile(unique_filename(req[p]))
            /\ Return(p, RespServerError(err[p]), conn[p])
       ELSE /\ Return(p, Unhandled, conn[p])
            /\ UNCHANGED uploads
    /\ UNCHANGED <<dbVars, req>>
    /\ UNCHANGED getVars

\* the dashboard rewrites form_config (another process on the same database),
\* at any time and any number of times
ChangeFormConfig ==
    /\ \E c \in CfgChoices \ {form_config} :
          /\ form_config' = c
          /\ form_config_order' \in OrderedFetches(c)
    /\ UNCHANGED <<form_sections, applications, uploads, subVars, getVars>>

SubmitStep(p) ==
    \/ \E r \in Requests : Receive(p, r)
    \/ Save(p)
    \/ SaveFails(p)
    \/ ConnectFails(p)
    \/ SelectFails(p)
    \/ ReadColumns(p)
    \/ InsertConflict(p)
    \/ InsertFails(p)
    \/ CommitFails(p)
    \/ InsertOk(p)
    \/ Remove(p)

(* ------------------------ get_public_form_config ----------------------- *)
\* the fallback rank of a subsection without a form_sections row (line 93)
MissingRank == 9999

\* line 78: {row['name']: row['section_order'] for row in sections_query};
\* the rows come in ascending section_order, so the last row of a name wins
SectionOrderDict(rows) ==
    [k \in {r.name : r \in rows} |->
        CHOOSE o \in {r.section_order : r \in {x \in rows : x.name = k}} :
            \A r \in rows : r.name = k => r.section_order <= o]

\* the keys of the defaultdict in insertion order: each subsection once, in
\* the order of its first field
RECURSIVE DiscoveryOrder(_, _)
DiscoveryOrder(fq, acc) ==
    IF fq = <<>> THEN acc
    ELSE DiscoveryOrder(Tail(fq),
            IF \E i \in 1..Len(acc) : acc[i] = Head(fq).subsection
            THEN acc ELSE Append(acc, Head(fq).subsection))

\* lines 87-89 with the bug of keeping only the last field of a subsection
SubsectionLastOnly(fq, k) ==
    LET all == SelectSeq(fq, LAMBDA f : f.subsection = k)
    IN IF all = <<>> THEN all ELSE <<all[Len(all)]>>

\* lines 87-89: subsections[k], the fields of k in fetch order
Subsection(fq, k) == SelectSeq(fq, LAMBDA f : f.subsection = k)

\* the sort keys of lines 93 and 95
SortKey(fq, so, k) ==
    IF DOMAIN so # {}
    THEN IF k \in DOMAIN so THEN so[k] ELSE MissingRank
    ELSE IF Subsection(fq, k) # <<>> THEN Subsection(fq, k)[1].field_order ELSE 0

\* sorted(keys, key=...): Python's sort is stable, so an element's place is
\* the number of elements with a smaller key, or an equal key and an earlier
\* position
StableSorted(keys, fq, so) ==
    LET n == Len(keys)
        Before(j, i) ==
            \/ SortKey(fq, so, keys[j]) < SortKey(fq, so, keys[i])
            \/ SortKey(fq, so, keys[j]) = SortKey(fq, so, keys[i]) /\ j < i
        Place(i) == 1 + Cardinality({j \in 1..n : Before(j, i)})
    IN [r \in 1..n |-> keys[CHOOSE i \in 1..n : Place(i) = r]]

\* lines 86-99: the ordered mapping subsection -> fields
OrderedSubsections(fq, so) ==
    LET order == StableSorted(DiscoveryOrder(fq, <<>>), fq, so)
    IN [i \in 1..Len(order) |->
          [key |-> order[i], fields |-> Subsection(fq, order[i])]]

\* the subsection labels in alphabetical order
Labels == <<"A", "B">>
LabelIndex(k) == CHOOSE i \in 1..Len(Labels) : Labels[i] = k

\* the mapping as Flask would serialise it with sort_keys switched off
JsonifyUnsorted(mapping) == mapping

\* line 101, jsonify(ordered_subsections): Flask's default JSON provider
\* dumps with sort_keys=True (JSON_SORT_KEYS is never switched off in this
\* file), so the object's keys come out in alphabetical order
Jsonify(mapping) ==
    LET n == Len(mapping)
        Place(i) ==
            1 + Cardinality({j \in 1..n :
                                LabelIndex(mapping[j].key) < LabelIndex(mapping[i].key)})
    IN [r \in 1..n |-> mapping[CHOOSE i \in 1..n : Place(i) = r]]

RespConfig(mapping) == [status |-> 200, mapping |-> mapping]
RespConfigError(e) ==
    [status |-> 500, error |-> "Could not retrieve form configuration.", message |-> e]

\* the view returns: its locals are gone
GetReturn(response) ==
    /\ gresp' = response
    /\ section_order' = <<>>
    /\ fields_query' = <<>>
    /\ ordered_subsections' = <<>>
    /\ gpc' = "done"

\* line 71: a request arrives and opens its connection
GetStart ==
    /\ gpc = "idle"
    /\ gcount < MaxGets
    /\ gcount' = gcount + 1
    /\ gconn' = "open"
    /\ gpc' = "sections"
    /\ UNCHANGED <<section_order, fields_query, ordered_subsections, gresp>>
    /\ UNCHANGED <<dbVars, uploads, subVars>>

\* line 71: get_db_conn() raises
GetConnectFails ==
    /\ gpc = "idle"
    /\ gcount < MaxGets
    /\ gcount' = gcount + 1
    /\ gconn' = "none"
    /\ GetReturn(RespConfigError("connect"))
    /\ UNCHANGED <<dbVars, uploads, subVars>>

\* lines 76-78: form_sections is read
GetSections ==
    /\ gpc = "sections"
    /\ form_sections.exists
    /\ section_order' = SectionOrderDict(form_sections.rows)
    /\ gpc' = "fields"
    /\ UNCHANGED <<gcount, fields_query, ordered_subsections, gconn, gresp>>
    /\ UNCHANGED <<dbVars, uploads, subVars>>

\* lines 79-81: the lookup raises sqlite3.OperationalError (no such table, or
\* a locked database), which is swallowed
GetSectionsOperationalError ==
    /\ gpc = "sections"
    /\ section_order' = <<>>
    /\ gpc' = "fields"
    /\ UNCHANGED <<gcount, fields_query, ordered_subsections, gconn, gresp>>
    /\ UNCHANGED <<dbVars, uploads, subVars>>

\* line 76: the lookup raises an error that is no OperationalError
GetSectionsFails ==
    /\ gpc = "sections"
    /\ GetReturn(RespConfigError("sections"))
    /\ UNCHANGED <<gcount, gconn>>
    /\ UNCHANGED <<dbVars, uploads, subVars>>

\* lines 83-99: form_config is read, the connection closed, the mapping built
GetFields ==
    /\ gpc = "fields"
    /\ fields_query' = form_config_order
    /\ ordered_subsections' = OrderedSubsections(form_config_order, section_order)
    /\ gconn' = "closed"
    /\ gpc' = "respond"
    /\ UNCHANGED <<gcount, section_order, gresp>>
    /\ UNCHANGED <<dbVars, uploads, subVars>>

\* line 83: reading form_config raises; the connection is left open
GetFieldsFails ==
    /\ gpc = "fields"
    /\ GetReturn(RespConfigError("fields"))
    /\ UNCHANGED <<gcount, gconn>>
    /\ UNCHANGED <<dbVars, uploads, subVars>>

\* line 101: return jsonify(ordered_subsections)
GetRespond ==
    /\ gpc = "respond"
    /\ GetReturn(RespConfig(Jsonify(ordered_subsections)))
    /\ UNCHANGED <<gcount, gconn>>
    /\ UNCHANGED <<dbVars, uploads, subVars>>

\* the worker is free for the next form-config request
GetAgain ==
    /\ gpc = "done"
    /\ gcount < MaxGets
    /\ gpc' = "idle"
    /\ UNCHANGED <<gcount, section_order, fields_query, ordered_subsections, gconn, gresp>>
    /\ UNCHANGED <<dbVars, uploads, subVars>>

GetStep ==
    \/ GetStart
    \/ GetConnectFails
    \/ GetSections
    \/ GetSectionsOperationalError
    \/ GetSectionsFails
    \/ GetFields
    \/ GetFieldsFails
    \/ GetRespond
    \/ GetAgain

\* the submission pipeline: concurrent submissions while the dashboard may
\* rewrite form_config
Next ==
    \/ \E p \in Subs : SubmitStep(p)
    \/ ChangeFormConfig

Spec == Init /\ [][Next]_vars

(* ----------------------- the schema reader alone ----------------------- *)
FieldNames == {"email", "name", "phone"}
FieldOrders == {1, 2, 3, 5}

\* form_config tables: every field name at most once, in any subsection and
\* at any display order (two fields may share a display order)
FormConfigs ==
    LET Slots == [FieldNames ->
                     {<<>>} \cup {<<l, o>> : l \in {"A", "B"}, o \in FieldOrders}]
    IN { {FieldRow(n, slot[n][1], slot[n][2]) : n \in {m \in FieldNames : slot[m] # <<>>}} :
           slot \in Slots }

\* section_order values on both sides of the fallback rank
SectionOrders == {1, 2, MissingRank, MissingRank + 1}

\* form_sections: missing, or a table of at most two rows
FormSections ==
    LET Rows == {SectionRow(l, o) : l \in {"A", "B"}, o \in SectionOrders}
    IN {SectionsMissing}
       \cup {SectionsTable(rows) : rows \in {r \in SUBSET Rows : Cardinality(r) <= 2}}

FormInit ==
    /\ form_config \in FormConfigs
    /\ form_config_order \in OrderedFetches(form_config)
    /\ form_sections \in FormSections
    /\ SubInit
    /\ GetInit

FormNext == GetStep

FormSpec == FormInit /\ [][FormNext]_vars

(* ------------------------------ properties ----------------------------- *)
Done(p) == pc[p] = "done"
PassedChecks(p) == Done(p) /\ AttachmentCheck(req[p]) = NoResp
RowsOf(p) == {a \in applications : a.id = p}
\* the same after the step
RowsAfter(p) == {a \in applications' : a.id = p}
\* a file is stored under the derived name of p after the step
FileStoredAfter(p) == \E f \in uploads' : f.name = unique_filename(req[p])
ConfigNames == UNION {{f.name : f \in c} : c \in CfgChoices}

\* C1: a submission with a valid PDF attachment whose submitted field names
\* are all absent from form_config is answered 400 "No valid data fields
\* received." and inserts no Application row (storage errors aside).
C1_NoValidFieldsIsRejected ==
    \A p \in Subs :
        ( /\ PassedChecks(p)
          /\ DOMAIN req[p].form \cap ConfigNames = {}
          /\ resp[p].status # 500 )
        => (resp[p] = ErrNoFields /\ RowsOf(p) = {})

\* the step in which submission p returns
Returns(p) == pc[p] # "done" /\ pc'[p] = "done"

\* p returns in this step and its file.save had succeeded (FileStored)
ReturnsAfterSave(p) ==
    /\ Returns(p)
    /\ \/ pc[p] \in {"read", "insert"}
       \/ pc[p] = "remove" /\ err[p] # OSError

RowEmails == {a.data["email"] : a \in {x \in applications : "email" \in DOMAIN x.data}}

AtMostOneRowPerEmail ==
    \A a, b \in applications :
        ( /\ "email" \in DOMAIN a.data
          /\ "email" \in DOMAIN b.data
          /\ a.data["email"] = b.data["email"] ) => a = b

\* C2 (as claimed): the applications store holds at most one row per email,
\* and a submission whose email is that of an already inserted Application
\* gets 409 naming that email, inserts no row and leaves the rows unchanged
\* (a submission ended by a storage error aside).
C2_DuplicateEmailGets409 ==
    /\ []AtMostOneRowPerEmail
    /\ [][\A p \in Subs :
            ( /\ Returns(p)
              /\ AttachmentCheck(req[p]) = NoResp
              /\ resp'[p].status # 500
              /\ "email" \in DOMAIN req[p].form
              /\ req[p].form["email"] \in RowEmails )
            => ( /\ resp'[p] = RespConflict(req[p].form["email"])
                 /\ applications' = applications )]_vars

\* C2 (amended): at most one row per email; rows are never changed or
\* removed; a submission whose INSERT names the email column with the email
\* of an already inserted Application inserts no row and is answered 409
\* naming that email, or 500 when a storage error ends it.
C2_DuplicateInsertGets409 ==
    /\ []AtMostOneRowPerEmail
    /\ [][applications \subseteq applications']_vars
    /\ [][\A p \in Subs :
            ( /\ Returns(p)
              /\ "email" \in columns_to_insert[p]
              /\ req[p].form["email"] \in RowEmails )
            => ( /\ \/ resp'[p] = RespConflict(req[p].form["email"])
                    \/ resp'[p].status = 500
                 /\ applications' = applications )]_vars

\* C2 witness: a submission was answered 409 for the email of a row that
\* another submission inserted
C2_Witness ==
    \E p \in Subs :
        /\ Done(p)
        /\ resp[p].status = 409
        /\ \E a \in applications :
              a.id # p /\ "email" \in DOMAIN a.data /\ a.data["email"] = resp[p].email

\* C3 (as claimed): a submission whose file was saved returns either
\* Inserted (its row committed, the file kept: it removes nothing) or
\* RolledBack (no row, no file under its name); none returns with the file
\* stored and no row.
C3_InsertedOrRolledBack ==
    [][\A p \in Subs :
         ReturnsAfterSave(p) =>
            \/ RowsAfter(p) # {} /\ uploads' = uploads
            \/ RowsAfter(p) = {} /\ ~FileStoredAfter(p)]_vars

\* C3 (amended): a submission whose file was saved returns in one of three
\* states: Inserted (200, exactly its one row committed, no file touched),
\* Conflict (409, no row committed, no file touched: the saved file stays) or
\* RolledBack (500, no row committed, no file left under its derived name).
C3_InsertedConflictOrRolledBack ==
    [][\A p \in Subs :
         ReturnsAfterSave(p) =>
            \/ /\ resp'[p] = RespSuccess
               /\ Cardinality(RowsAfter(p)) = 1
               /\ applications' = applications \cup RowsAfter(p)
               /\ RowsOf(p) = {}
               /\ uploads' = uploads
            \/ /\ resp'[p].status = 409
               /\ applications' = applications
               /\ RowsOf(p) = {}
               /\ uploads' = uploads
            \/ /\ resp'[p].status = 500
               /\ applications' = applications
               /\ RowsOf(p) = {}
               /\ ~FileStoredAfter(p)]_vars

\* C3 witness: a submission returned 409 and the file it saved is still
\* stored although it has no row
C3_Witness ==
    \E p \in Subs :
        /\ Done(p)
        /\ resp[p].status = 409
        /\ RowsOf(p) = {}
        /\ [name |-> unique_filename(req[p]), blob |-> p] \in uploads

\* C4: a submission that fails after its file was saved, with a storage
\* error that is no integrity violation, has no file left under its derived
\* name, commits no row and is answered 500 with an error and the message.
C4_StorageErrorRollsBack ==
    [][\A p \in Subs :
         (ReturnsAfterSave(p) /\ resp'[p].status \notin {200, 409}) =>
            /\ resp'[p] = RespServerError(SqliteError)
            /\ RowsAfter(p) = {}
            /\ ~FileStoredAfter(p)]_vars

FormConfigNames == {f.name : f \in form_config}

\* C5: the columns a submission inserts are the submitted keys that are
\* names of the form_config rows as the submission reads them, plus
\* resume_path: other keys are dropped, resume_path carries the derived
\* stored filename, and the row inserted is made of exactly these columns.
C5_ColumnsFollowFormConfig ==
    [][\A p \in Subs :
         /\ (pc[p] = "read" /\ pc'[p] = "insert") =>
               /\ columns_to_insert'[p] \subseteq FormConfigNames \cup {"resume_path"}
               /\ columns_to_insert'[p] =
                     {k \in DOMAIN req[p].form : k \in FormConfigNames}
                        \cup {"resume_path"}
         /\ (RowsAfter(p) # RowsOf(p)) =>
               \E a \in RowsAfter(p) :
                  /\ RowsAfter(p) = {a}
                  /\ DOMAIN a.data = columns_to_insert[p]
                  /\ a.data["resume_path"] = unique_filename(req[p])
                  /\ \A k \in DOMAIN a.data \ {"resume_path"} :
                        a.data[k] = req[p].form[k]]_vars

\* C5 witness: the same form was inserted twice, once with the email column
\* and, after form_config lost its email row, once without it; the key foo
\* and the submitted resume_path value were dropped both times
C5_Witness ==
    \E a, b \in applications :
        /\ req[a.id].form = FormKnown
        /\ req[b.id].form = FormKnown
        /\ DOMAIN a.data = {"email", "name", "resume_path"}
        /\ DOMAIN b.data = {"name", "resume_path"}
        /\ a.data["resume_path"] = unique_filename(req[a.id])

\* a filename that ends in ".pdf", in any mix of upper and lower case
EndsInDotPdf(fn) ==
    /\ Len(fn) >= 4
    /\ fn[Len(fn) - 3] = "."
    /\ fn[Len(fn) - 2] \in {"p", "P"}
    /\ fn[Len(fn) - 1] \in {"d", "D"}
    /\ fn[Len(fn)] \in {"f", "F"}

\* C6: the attachment checks come in a fixed order, each with its own 400:
\* no cv-resume part, then an empty filename, then a filename that does not
\* end in .pdf (in any case); a filename ending in .pdf passes all three.
C6_AttachmentChecksInOrder ==
    \A p \in Subs :
        pc[p] # "idle" =>
            /\ ~req[p].hasPart => (Done(p) /\ resp[p] = ErrNoPart)
            /\ (req[p].hasPart /\ req[p].filename = <<>>) =>
                  (Done(p) /\ resp[p] = ErrNoFile)
            /\ (req[p].hasPart /\ req[p].filename # <<>>
                  /\ ~EndsInDotPdf(req[p].filename)) =>
                  (Done(p) /\ resp[p] = ErrBadType)
            /\ (req[p].hasPart /\ EndsInDotPdf(req[p].filename)) =>
                  resp[p] \notin {ErrNoPart, ErrNoFile, ErrBadType}

\* C6 witness: an upload named c.PDF has passed the checks and been saved
\* while a .docx upload got "File type not allowed"
C6_Witness ==
    \E p, q \in Subs :
        /\ req[p].filename = PdfUpper
        /\ pc[p] = "read"
        /\ req[q].filename = DocxName
        /\ resp[q] = ErrBadType

\* the responses the two endpoints document
SubmitResponses ==
    {ErrNoPart, ErrNoFile, ErrBadType, ErrNoFields, RespSuccess}
    \cup {RespConflict(r.form["email"]) : r \in {x \in Requests : "email" \in DOMAIN x.form}}
    \cup {RespServerError(OSError), RespServerError(SqliteError)}

\* C9: every request returns exactly one of the documented structured
\* responses, whatever fails while it runs: no exception leaves a handler.
C9_AlwaysStructuredResponse ==
    /\ \A p \in Subs : Done(p) => resp[p] \in SubmitResponses
    /\ gpc = "done" =>
          \/ gresp.status = 200 /\ DOMAIN gresp = {"status", "mapping"}
          \/ gresp.status = 500 /\ DOMAIN gresp = {"status", "error", "message"}

\* the fields of a subsection entry come in ascending field_order
FieldsAscending(entry) ==
    \A i, j \in 1..Len(entry.fields) :
        i < j => entry.fields[i].field_order <= entry.fields[j].field_order

\* the least field_order of a subsection entry
MinFieldOrder(entry) ==
    CHOOSE o \in {entry.fields[i].field_order : i \in 1..Len(entry.fields)} :
        \A i \in 1..Len(entry.fields) : o <= entry.fields[i].field_order

\* the order the specification asks of a mapping, given the SectionOrder so
OrderedAsSpecified(m, so) ==
    /\ \A e \in 1..Len(m) : FieldsAscending(m[e])
    /\ \A i, j \in 1..Len(m) :
          i < j =>
             IF DOMAIN so # {}
             THEN (m[i].key \in DOMAIN so /\ m[j].key \in DOMAIN so)
                     => so[m[i].key] <= so[m[j].key]
             ELSE MinFieldOrder(m[i]) <= MinFieldOrder(m[j])

\* C7: the mapping get_public_form_config returns has, within each
\* subsection, the fields in ascending field_order, and the subsections in
\* the order of their SectionOrder values when SectionOrder is non-empty,
\* otherwise in the order of their least field_order.
C7_ResponseOrdered ==
    [][(gpc = "respond" /\ gpc' = "done") =>
          OrderedAsSpecified(gresp'.mapping, section_order)]_vars

Places(m, row) ==
    {<<e, i>> \in (1..Len(m)) \X (1..Cardinality(form_config)) :
        i <= Len(m[e].fields) /\ m[e].fields[i] = row}

\* C10: a form-config request that fails returns 500 with an error and a
\* message and no mapping at all; a 200 response holds every form_config
\* row exactly once, each under its own subsection, and nothing else.
C10_ErrorOrCompleteMapping ==
    /\ [](gpc = "done" =>
            \/ /\ gresp.status = 500
               /\ DOMAIN gresp = {"status", "error", "message"}
            \/ /\ gresp.status = 200
               /\ \A row \in form_config : Cardinality(Places(gresp.mapping, row)) = 1
               /\ \A e \in 1..Len(gresp.mapping) :
                     /\ gresp.mapping[e].fields # <<>>
                     /\ \A i \in 1..Len(gresp.mapping[e].fields) :
                           /\ gresp.mapping[e].fields[i] \in form_config
                           /\ gresp.mapping[e].fields[i].subsection
                                 = gresp.mapping[e].key
               /\ \A e, f \in 1..Len(gresp.mapping) :
                     gresp.mapping[e].key = gresp.mapping[f].key => e = f)
    /\ [][(gpc \in {"idle", "fields"} /\ gpc' = "done") =>
             (gresp'.status = 500 /\ "mapping" \notin DOMAIN gresp')]_vars

\* C10 witness: a 200 response for a form_config of three rows, two of them
\* in one subsection
C10_Witness ==
    /\ gpc = "done"
    /\ gresp.status = 200
    /\ Cardinality(form_config) = 3
    /\ \E e \in 1..Len(gresp.mapping) : Len(gresp.mapping[e].fields) = 2

\* the subsections of a mapping come in the order of the field_order of
\* their first field
ByFirstField(m) ==
    \A i, j \in 1..Len(m) :
        i < j => m[i].fields[1].field_order <= m[j].fields[1].field_order

\* C11: with no form_sections table the failed lookup is caught and leaves
\* an empty SectionOrder, and the request answers 200 with the subsections
\* in the order of the field_order of their first field.
C11_MissingSectionsFallback ==
    /\ [][(gpc = "sections" /\ gpc' = "fields" /\ ~form_sections.exists) =>
             section_order' = <<>>]_vars
    /\ [][(gpc = "respond" /\ gpc' = "done" /\ ~form_sections.exists) =>
             /\ gresp'.status = 200
             /\ ByFirstField(gresp'.mapping)]_vars

\* C13: a form-config request changes no stored state, and with the storage
\* unchanged a request that answers 200 after an earlier 200 returns the
\* identical mapping: the same subsections in the same order, each with the
\* same fields in the same order.
C13_RepeatedCallsAgree ==
    /\ [][UNCHANGED <<form_config, form_config_order, form_sections,
                      applications, uploads>>]_vars
    /\ [][(gpc = "respond" /\ gpc' = "done" /\ gresp.status = 200) =>
             gresp' = gresp]_vars

\* C13 witness: a second request is about to answer what the first one
\* answered, for two subsections whose first fields share a field_order
C13_Witness ==
    /\ gpc = "respond"
    /\ gcount = 2
    /\ gresp = RespConfig(Jsonify(ordered_subsections))
    /\ Len(ordered_subsections) = 2
    /\ ordered_subsections[1].fields[1].field_order
          = ordered_subsections[2].fields[1].field_order

\* C19: a request that has responded holds no open database connection,
\* whatever its outcome, in both handlers.
C19_ConnectionsClosed ==
    /\ \A p \in Subs : Done(p) => conn[p] # "open"
    /\ gpc = "done" => gconn # "open"

\* the stored name of submission p
NameOf(p) == unique_filename(req[p])

\* p has returned and its file.save had succeeded
SavedAndDone(p) ==
    /\ Done(p)
    /\ \/ resp[p].status \in {200, 409}
       \/ resp[p] = RespServerError(SqliteError)

\* the step in which file.save of p succeeds
Writes(p) == pc[p] = "save" /\ pc'[p] = "read"

\* the stored name is a function of the sanitised email and the sanitised
\* original filename: a request that arrives gets the stored name of every
\* earlier request with the same sanitised email and filename
NameDeterministic ==
    \A p \in Subs :
        (pc[p] = "idle" /\ pc'[p] # "idle") =>
            \A q \in Subs :
                ( /\ pc[q] # "idle"
                  /\ secure_filename(EmailOf(req'[p])) = secure_filename(EmailOf(req[q]))
                  /\ secure_filename(req'[p].filename) = secure_filename(req[q].filename) )
                => unique_filename(req'[p]) = unique_filename(req[q])

\* after its file write, the one blob under the name of p is the upload of p
WriteReplaces ==
    \A p \in Subs :
        Writes(p) =>
            /\ {f \in uploads' : f.name = NameOf(p)}
                  = {[name |-> NameOf(p), blob |-> p]}
            /\ {f \in uploads' : f.name # NameOf(p)}
                  = {f \in uploads : f.name # NameOf(p)}

\* C12 (as claimed): the stored name is a function of the sanitised email
\* and the sanitised filename, a file write puts the upload under that name,
\* and once two submissions that wrote to the same name have both returned,
\* a blob of one of the writers to that name is stored under it.
C12_LastWriteWins ==
    /\ [][NameDeterministic]_vars
    /\ [][WriteReplaces]_vars
    /\ [](\A p, q \in Subs :
            ( /\ p # q
              /\ SavedAndDone(p)
              /\ SavedAndDone(q)
              /\ NameOf(p) = NameOf(q) )
            => \E f \in uploads :
                  /\ f.name = NameOf(p)
                  /\ \E w \in Subs : f.blob = w /\ NameOf(w) = f.name)

\* C12 (amended): the stored name is a function of the sanitised email and
\* the sanitised filename; at most one blob is stored under a name; a file
\* write replaces the blob under its name by its own upload; and the only
\* other change to the upload directory is the compensating delete of a
\* submission that ends in 500, which removes whatever is stored under its
\* name.  So the blob under a name is the one of the last write to it, or
\* there is none.
C12_LastWriteUntilRemoved ==
    /\ [][NameDeterministic]_vars
    /\ [](\A f, g \in uploads : f.name = g.name => f = g)
    /\ [][WriteReplaces]_vars
    /\ [][uploads' # uploads =>
            \E p \in Subs :
               \/ Writes(p)
               \/ /\ pc[p] = "remove"
                  /\ resp'[p] = RespServerError(err[p])
                  /\ uploads' = {f \in uploads : f.name # NameOf(p)}]_vars

\* C12 witness: two submissions with one stored name were both inserted, and
\* the blob under the name is the upload of the one that arrived first and
\* wrote last
C12_Witness ==
    \E p, q \in Subs :
        /\ p < q
        /\ Done(p) /\ resp[p] = RespSuccess
        /\ Done(q) /\ resp[q] = RespSuccess
        /\ NameOf(p) = NameOf(q)
        /\ [name |-> NameOf(p), blob |-> p] \in uploads

\* C14: within a submission the file write precedes every database
\* interaction, and a saved file is deleted only by the submission that saved
\* it, when a database error ends that submission with 500; no file is
\* deleted by a submission that ends in 200, 400 or 409.
C14_WriteFirstDeleteOnOwnFailure ==
    /\ [][\A p \in Subs :
            ((conn[p] = "none" /\ conn'[p] # "none") \/ RowsAfter(p) # RowsOf(p))
               => pc[p] \in {"read", "insert"}]_vars
    /\ [][\A f \in uploads :
            (\A g \in uploads' : g.name # f.name) =>
               \E p \in Subs :
                  /\ pc[p] = "remove"
                  /\ err[p] = SqliteError
                  /\ f = [name |-> NameOf(p), blob |-> p]
                  /\ resp'[p].status = 500]_vars
    /\ [][\A p \in Subs :
            (Returns(p) /\ resp'[p].status \in {200, 400, 409}) =>
               uploads' = uploads]_vars

\* a request that one of the three attachment checks rejects
EarlyRejected(r) ==
    \/ ~r.hasPart
    \/ r.filename = <<>>
    \/ ~EndsInDotPdf(r.filename)

\* C15: a submission that one of the three attachment checks rejects is
\* answered 400 and changes nothing: no file is written or removed, no
\* database connection is opened and no row is added, then or later.
C15_EarlyRejectChangesNothing ==
    /\ [][\A p \in Subs :
            (pc[p] = "idle" /\ pc'[p] # "idle" /\ EarlyRejected(req'[p])) =>
               /\ pc'[p] = "done"
               /\ resp'[p] \in {ErrNoPart, ErrNoFile, ErrBadType}
               /\ uploads' = uploads
               /\ conn' = conn
               /\ UNCHANGED <<form_config, form_config_order, form_sections,
                              applications>>]_vars
    /\ [](\A p \in Subs :
            (pc[p] # "idle" /\ EarlyRejected(req[p])) =>
               /\ Done(p)
               /\ conn[p] = "none"
               /\ RowsOf(p) = {}
               /\ \A f \in uploads : f.blob # p)

\* C15 witness: a .docx submission was rejected after an earlier submission
\* had stored its file and its row, which are both still there
C15_Witness ==
    \E p, q \in Subs :
        /\ q < p
        /\ Done(p) /\ resp[p] = ErrBadType /\ conn[p] = "none"
        /\ RowsOf(q) # {}
        /\ [name |-> NameOf(q), blob |-> q] \in uploads

\* C16: the resume_path of every Application row names a file that is
\* stored in the upload directory.
C16_RowsHaveFiles ==
    \A a \in applications : FileExists(a.data["resume_path"])

\* no submission is under way
Quiet == \A p \in Subs : pc[p] \in {"idle", "done"}

\* C17: once the submissions have returned, the blob stored under the
\* resume_path of an Application row is the upload of the submission that
\* inserted the row, when every other submission to that name ended in 409
\* or 500.
C17_RowsKeepTheirUpload ==
    Quiet =>
        \A a \in applications :
            \A f \in uploads :
                ( /\ f.name = a.data["resume_path"]
                  /\ \A q \in Subs \ {a.id} :
                        (Done(q) /\ NameOf(q) = f.name) =>
                            resp[q].status \in {409, 500} )
                => f.blob = a.id

\* C18: a submission answers 200 exactly when it has committed one new row,
\* its own; a submission that answers 400, 409 or 500 leaves the rows as
\* they were; and the rows change in no other step.
C18_ResponseAgreesWithRows ==
    /\ [][\A p \in Subs :
            Returns(p) =>
               /\ resp'[p].status \in {200, 400, 409, 500}
               /\ resp'[p].status = 200 <=>
                     ( /\ RowsOf(p) = {}
                       /\ Cardinality(RowsAfter(p)) = 1
                       /\ applications' = applications \cup RowsAfter(p) )
               /\ resp'[p].status # 200 => applications' = applications]_vars
    /\ [][applications' # applications =>
            \E p \in Subs : Returns(p) /\ resp'[p] = RespSuccess]_vars

\* C18 witness: one submission committed its row and got 200, another one
\* failed on a database error, got 500 and has no row
C18_Witness ==
    \E p, q \in Subs :
        /\ Done(p) /\ resp[p] = RespSuccess /\ Cardinality(RowsOf(p)) = 1
        /\ Done(q) /\ resp[q] = RespServerError(SqliteError) /\ RowsOf(q) = {}
        /\ applications = RowsOf(p)

====
